---- MODULE Spec2Model ----
(***************************************************************************)
(* A model of acitivityUploadScript.py: StravaActivityFetcher and main().  *)
(*                                                                         *)
(* One run of main() is a walk of pc through get_latest_activity,          *)
(* process_activity and update_website_log.  The token cache file and the  *)
(* remote index.html outlive a run; everything else is reset by StartRun.  *)
(* The token endpoint, the activities endpoint, the polyline decoder, the  *)
(* repository service and the clock are the environment: their outcomes    *)
(* are chosen with \E.                                                     *)
(*                                                                         *)
(* Numbers.  Latitudes and longitudes are integers (the decoder's 1e-5     *)
(* degree steps).  The padded bounding box is kept in tenths of a step so  *)
(* that the 10 % padding is exact, and projected coordinates are kept in   *)
(* tenths of a canvas unit, which is what the ".1f" formatting prints.     *)
(* Binary floating-point rounding is not modelled.                         *)
(*                                                                         *)
(* Text.  A document is a sequence of tokens; indices are Python's         *)
(* (0-based), slices are translated to SubSeq.                             *)
(***************************************************************************)
EXTENDS Integers, Sequences, FiniteSets

VARIABLES
    pc,          \* position of the run
    now,         \* time.time()
    runs,        \* runs of main() started so far
    tokenFile,   \* content of strava_token.json, or NoFile
    data,        \* get_latest_activity: data
    loaded,      \* what get_token() returned at line 71
    checkedAt,   \* time.time() read at line 74, -1 before
    requestAt,   \* time at which the activities request was issued, -1 if not
    calls,       \* the calls this run has made, in order
    tokenFailed, \* a token endpoint call of this run got a non-success response
    activity,    \* the activity main() holds, or NoActivity
    svgResult,   \* what create_route_svg last returned or raised
    doc,         \* the remote index.html: content and blob sha
    content,     \* update_website_log: content
    sha,         \* update_website_log: file.sha
    fragment,    \* update_website_log: new_log_entry
    written,     \* content handed to the last update_file that succeeded
    report,      \* the last message update_website_log printed
    error,       \* the exception that ended the run, "none" otherwise
    edits        \* edits made by other writers of the repository

vars == << pc, now, runs, tokenFile, data, loaded, checkedAt, requestAt, calls,
           tokenFailed, activity, svgResult, doc, content, sha, fragment,
           written, report, error, edits >>

authVars == << tokenFile, data, loaded, checkedAt, requestAt, tokenFailed >>
pubVars  == << doc, content, sha, fragment, written, report >>

---------------------------------------------------------------------------
(* Bounds of the model *)

MaxTime   == 2
MaxRuns   == 2
MaxEdits  == 1
MaxDocLen == 5
MaxPts    == 3
MaxCoord  == 2

---------------------------------------------------------------------------
(* Generic helpers *)

Min(S) == CHOOSE m \in S : \A k \in S : m <= k
Max(S) == CHOOSE m \in S : \A k \in S : m >= k

Range(s) == { s[i] : i \in 1..Len(s) }

Count(s, e) == Cardinality({ i \in 1..Len(s) : s[i] = e })

\* positions (1-based) of e in s
Positions(s, e) == { i \in 1..Len(s) : s[i] = e }

SeqsUpTo(S, n) == UNION { [1..k -> S] : k \in 0..n }

\* round(num / den) for den > 0, halves up
RoundDiv(num, den) == (2 * num + den) \div (2 * den)

---------------------------------------------------------------------------
(* create_route_svg *)

width  == 200
height == 150

NoRoute == [kind |-> "none"]
Raised(e) == [kind |-> "raise", exc |-> e]

\* activity.get('map', {}).get('summary_polyline') is falsy
NoPolyline(act) == act.polyline \in {"absent", "empty"}

\* polyline.decode: a list of (lat, lng), or an exception on a truncated string
decode(act) ==
    IF act.polyline = "malformed"
    THEN [ok |-> FALSE, points |-> << >>]
    ELSE [ok |-> TRUE, points |-> act.points]

\* the padding applied inwards
BoundsShrunk(points) ==
    LET lats == { points[i][1] : i \in 1..Len(points) }
        lngs == { points[i][2] : i \in 1..Len(points) }
        lat_padding == Max(lats) - Min(lats)
        lng_padding == Max(lngs) - Min(lngs)
    IN  [ min_lat |-> 10 * Min(lats) + lat_padding,
          max_lat |-> 10 * Max(lats) - lat_padding,
          min_lng |-> 10 * Min(lngs) + lng_padding,
          max_lng |-> 10 * Max(lngs) - lng_padding ]

\* lines 119-130: the bounding box after padding, in tenths of a step
Bounds(points) ==
    LET lats == { points[i][1] : i \in 1..Len(points) }
        lngs == { points[i][2] : i \in 1..Len(points) }
        lat_padding == Max(lats) - Min(lats)    \* (max - min) * 0.1, in tenths
        lng_padding == Max(lngs) - Min(lngs)
    IN  [ min_lat |-> 10 * Min(lats) - lat_padding,
          max_lat |-> 10 * Max(lats) + lat_padding,
          min_lng |-> 10 * Min(lngs) - lng_padding,
          max_lng |-> 10 * Max(lngs) + lng_padding ]

\* lines 137-140: division by a zero span raises ZeroDivisionError
ZeroDiv(b) == b.max_lng - b.min_lng = 0 \/ b.max_lat - b.min_lat = 0

\* lines 137-140 and the ".1f" of lines 147/149: x and y in tenths
convert_point(b, lat, lng) ==
    LET dx == b.max_lng - b.min_lng
        dy == b.max_lat - b.min_lat
    IN  [ x |-> RoundDiv((10 * lng - b.min_lng) * width * 10, dx),
          y |-> RoundDiv((dy - (10 * lat - b.min_lat)) * height * 10, dy) ]

create_route_svg(act) ==
    IF NoPolyline(act) THEN NoRoute
    ELSE IF ~decode(act).ok THEN Raised("IndexError")
    ELSE LET points == decode(act).points IN
         IF points = << >> THEN NoRoute
         ELSE LET b == Bounds(points) IN
              IF ZeroDiv(b) THEN Raised("ZeroDivisionError")
              ELSE [ kind |-> "svg",
                     path |-> [ i \in 1..Len(points) |->
                                  LET p == convert_point(b, points[i][1], points[i][2])
                                  IN  [ op |-> IF i = 1 THEN "M" ELSE "L",
                                        x |-> p.x, y |-> p.y ] ] ]

---------------------------------------------------------------------------
(* Text: str.find and the splice of lines 233-236 *)

\* '<div class="logs">' : no '>' before its last character
Marker == << "<", "div class=logs", ">" >>

Alphabet == { "<", "div class=logs", ">" }

\* s.find(sub, start): the lowest 0-based index >= start where sub occurs, else -1
Find(s, sub, start) ==
    LET st   == IF start < 0 THEN Max({0, Len(s) + start}) ELSE start
        hits == { i \in st..(Len(s) - Len(sub)) : SubSeq(s, i + 1, i + Len(sub)) = sub }
    IN  IF hits = {} THEN -1 ELSE Min(hits)

\* a truthiness test in place of the comparison with -1
MarkerFoundTruthy(logs_start) == logs_start # 0

\* line 234
MarkerFound(logs_start) == logs_start # -1

\* the position of the '>' itself
InsertPositionNoStep(c, logs_start) == Find(c, << ">" >>, logs_start)

\* line 235
InsertPosition(c, logs_start) == Find(c, << ">" >>, logs_start) + 1

\* line 236: content[:insert_position] + new_log_entry + content[insert_position:]
Splice(c, pos, entry) == SubSeq(c, 1, pos) \o entry \o SubSeq(c, pos + 1, Len(c))

\* lines 215-230: the f-string renders svg_content with str(), None as "None"
RouteText(svg) == IF svg.kind = "svg" THEN "<svg>" ELSE "None"

NewLogEntry(act, svg) == << "<div class=log-entry>", act.name, RouteText(svg), "</div>" >>

---------------------------------------------------------------------------
(* Values *)

NoFile     == [nofile |-> TRUE]
NoData     == [nodata |-> TRUE]
NoActivity == [noactivity |-> TRUE]
NoSha      == << >>

Token(e) == [access_token |-> "access", refresh_token |-> "refresh", expires_at |-> e]

\* the JSON body of a refused grant
ErrBody == [message |-> "Bad Request", errors |-> "invalid"]

\* what the token endpoint can answer: a token, a refusal, or a body that is not JSON
TokenResponses ==
    { [status |-> 200, json |-> TRUE, body |-> Token(e)] : e \in 0..MaxTime }
    \cup { [status |-> 400, json |-> TRUE,  body |-> ErrBody],
           [status |-> 502, json |-> FALSE, body |-> ErrBody] }

\* the blob sha the repository service gives a content
Sha(c) == << "blob", c >>

Document(c) == [content |-> c, sha |-> Sha(c)]

Encoded(points) == [name |-> "Morning Run", polyline |-> "encoded", points |-> points]

\* the activities the endpoint returns in the full program
Activities ==
    { [name |-> "Morning Run", polyline |-> k, points |-> << >>] :
          k \in {"absent", "empty", "malformed", "encoded"} }
    \cup { Encoded(<< <<1, 1>> >>), Encoded(<< <<0, 0>>, <<2, 1>> >>) }

\* every activity with at most MaxPts points on a (MaxCoord+1) x (MaxCoord+1) grid
AllActivities ==
    { [name |-> "Morning Run", polyline |-> k, points |-> << >>] :
          k \in {"absent", "empty", "malformed"} }
    \cup { Encoded(ps) : ps \in SeqsUpTo((0..MaxCoord) \X (0..MaxCoord), MaxPts) }

Docs == SeqsUpTo(Alphabet, MaxDocLen)

\* the documents the full program starts from
SomeDocs == { Marker, << "<" >>, << ">" >> \o Marker \o << "<" >> }

---------------------------------------------------------------------------
(* Subscripts and comparisons of get_latest_activity *)

\* d.get(k): a missing key gives a value instead of raising
LookupGet(d, k) ==
    IF k \in DOMAIN d THEN [ok |-> TRUE, v |-> d[k]] ELSE [ok |-> TRUE, v |-> -1]

\* d[k] of lines 74 and 81: KeyError on a missing key
Lookup(d, k) ==
    IF k \in DOMAIN d THEN [ok |-> TRUE, v |-> d[k]] ELSE [ok |-> FALSE, v |-> -1]

\* the comparison off by one
ExpiredOrNow(expires_at, t) == expires_at <= t

\* line 74: data['expires_at'] < time.time()
Expired(expires_at, t) == expires_at < t

\* the sha of the document as it is when the write is made
UpdateShaFresh == doc.sha

\* line 242: sha=file.sha
UpdateSha == sha

---------------------------------------------------------------------------
(* The run *)

Crash(e) == pc' = "crashed" /\ error' = e

\* main(), get_latest_activity line 56
StartRun ==
    /\ pc \in {"idle", "done", "crashed"}
    /\ runs < MaxRuns
    /\ runs' = runs + 1
    /\ pc' = IF tokenFile = NoFile THEN "authorize" ELSE "get_token"
    /\ data' = NoData /\ loaded' = NoData
    /\ checkedAt' = -1 /\ requestAt' = -1
    /\ calls' = << >> /\ tokenFailed' = FALSE
    /\ activity' = NoActivity /\ svgResult' = NoRoute
    /\ content' = << >> /\ sha' = NoSha /\ fragment' = << >> /\ written' = << >>
    /\ report' = "none" /\ error' = "none"
    /\ UNCHANGED << now, tokenFile, doc, edits >>

\* lines 57-69: request_token, token.json(), write_token
RequestToken ==
    /\ pc = "authorize"
    /\ \E resp \in TokenResponses :
         /\ tokenFailed' = (tokenFailed \/ resp.status # 200)
         /\ IF resp.json
            THEN /\ tokenFile' = resp.body
                 /\ calls' = calls \o << "request_token", "write_token" >>
                 /\ pc' = "get_token"
                 /\ error' = error
            ELSE /\ tokenFile' = tokenFile
                 /\ calls' = calls \o << "request_token" >>
                 /\ Crash("JSONDecodeError")
    /\ UNCHANGED << now, runs, data, loaded, checkedAt, requestAt, activity,
                    svgResult, pubVars, edits >>

\* line 71
GetToken ==
    /\ pc = "get_token"
    /\ data' = tokenFile
    /\ loaded' = tokenFile
    /\ calls' = Append(calls, "get_token")
    /\ pc' = "check"
    /\ UNCHANGED << now, runs, tokenFile, checkedAt, requestAt, tokenFailed,
                    activity, svgResult, pubVars, error, edits >>

\* line 74
CheckExpiry ==
    /\ pc = "check"
    /\ LET e == Lookup(data, "expires_at") IN
         IF e.ok
         THEN /\ checkedAt' = now
              /\ pc' = IF Expired(e.v, now) THEN "refresh" ELSE "fetch"
              /\ error' = error
         ELSE /\ checkedAt' = checkedAt
              /\ Crash("KeyError")
    /\ UNCHANGED << now, runs, tokenFile, data, loaded, requestAt, calls,
                    tokenFailed, activity, svgResult, pubVars, edits >>

\* lines 75-79: refresh_token, new_token.json(), write_token, get_token
RefreshToken ==
    /\ pc = "refresh"
    /\ \E resp \in TokenResponses :
         /\ tokenFailed' = (tokenFailed \/ resp.status # 200)
         /\ IF resp.json
            THEN /\ tokenFile' = resp.body
                 /\ data' = resp.body
                 /\ calls' = calls \o << "refresh_token", "write_token", "get_token" >>
                 /\ pc' = "fetch"
                 /\ error' = error
            ELSE /\ tokenFile' = tokenFile
                 /\ data' = data
                 /\ calls' = calls \o << "refresh_token" >>
                 /\ Crash("JSONDecodeError")
    /\ UNCHANGED << now, runs, loaded, checkedAt, requestAt, activity,
                    svgResult, pubVars, edits >>

\* lines 81-106 and main() lines 254-258
FetchActivities ==
    /\ pc = "fetch"
    /\ LET a == Lookup(data, "access_token") IN
         IF a.ok
         THEN /\ requestAt' = now
              /\ calls' = Append(calls, "activities_request")
              /\ error' = error
              /\ \/ /\ activity' = NoActivity      \* status != 200, or an empty list
                    /\ pc' = "done"
                 \/ /\ activity' \in Activities
                    /\ pc' = "process"
         ELSE /\ requestAt' = requestAt
              /\ calls' = calls
              /\ activity' = activity
              /\ Crash("KeyError")
    /\ UNCHANGED << now, runs, tokenFile, data, loaded, checkedAt, tokenFailed,
                    svgResult, pubVars, edits >>

\* process_activity, lines 164-194, up to the call of update_website_log
ProcessActivity ==
    /\ pc = "process"
    /\ svgResult' = create_route_svg(activity)
    /\ IF svgResult'.kind = "raise"
       THEN /\ Crash(svgResult'.exc)
            /\ calls' = calls
       ELSE /\ pc' = "get_contents"
            /\ calls' = Append(calls, "update_website_log")
            /\ error' = error
    /\ UNCHANGED << now, runs, authVars, activity, pubVars, edits >>

\* update_website_log, lines 200-206; a failure is caught at line 249
GetContents ==
    /\ pc = "get_contents"
    /\ calls' = Append(calls, "get_contents")
    /\ \/ /\ content' = doc.content
          /\ sha' = doc.sha
          /\ pc' = "update"
          /\ report' = report
       \/ /\ content' = content
          /\ sha' = sha
          /\ pc' = "done"
          /\ report' = "error"
    /\ UNCHANGED << now, runs, authVars, activity, svgResult, doc, fragment,
                    written, error, edits >>

\* update_website_log, lines 209-250; the service refuses a sha that is not
\* the document's, and a refusal is caught at line 249
UpdateFile ==
    /\ pc = "update"
    /\ pc' = "done"
    /\ svgResult' = create_route_svg(activity)
    /\ IF svgResult'.kind = "raise"
       THEN /\ report' = "error"
            /\ UNCHANGED << doc, fragment, written, calls >>
       ELSE LET new_log_entry == NewLogEntry(activity, svgResult')
                logs_start    == Find(content, Marker, 0)
            IN  /\ fragment' = new_log_entry
                /\ IF MarkerFound(logs_start)
                   THEN LET insert_position == InsertPosition(content, logs_start)
                            updated_content == Splice(content, insert_position, new_log_entry)
                        IN  /\ calls' = Append(calls, "update_file")
                            /\ \/ /\ UpdateSha = doc.sha
                                  /\ doc' = Document(updated_content)
                                  /\ written' = updated_content
                                  /\ report' = "success"
                               \/ /\ doc' = doc
                                  /\ written' = written
                                  /\ report' = "error"
                   ELSE /\ report' = "nomarker"
                        /\ UNCHANGED << doc, written, calls >>
    /\ UNCHANGED << now, runs, authVars, activity, content, sha, error, edits >>

\* another writer commits a change of index.html
ExternalEdit ==
    /\ edits < MaxEdits
    /\ edits' = edits + 1
    /\ \/ \E t \in Alphabet : doc' = Document(Append(doc.content, t))
       \/ doc.content # << >> /\ doc' = Document(Tail(doc.content))
    /\ UNCHANGED << pc, now, runs, authVars, calls, activity, svgResult, content,
                    sha, fragment, written, report, error >>

\* the clock
Tick ==
    /\ now < MaxTime
    /\ now' = now + 1
    /\ UNCHANGED << pc, runs, authVars, calls, activity, svgResult, pubVars,
                    error, edits >>

---------------------------------------------------------------------------
(* Specifications *)

\* the program: any number of runs up to MaxRuns
Init ==
    /\ pc = "idle" /\ now = 1 /\ runs = 0 /\ edits = 0
    /\ tokenFile \in {NoFile} \cup { Token(e) : e \in 0..MaxTime }
    /\ data = NoData /\ loaded = NoData
    /\ checkedAt = -1 /\ requestAt = -1
    /\ calls = << >> /\ tokenFailed = FALSE
    /\ activity = NoActivity /\ svgResult = NoRoute
    /\ doc \in { Document(c) : c \in SomeDocs }
    /\ content = << >> /\ sha = NoSha /\ fragment = << >> /\ written = << >>
    /\ report = "none" /\ error = "none"

Next ==
    \/ StartRun
    \/ RequestToken
    \/ GetToken
    \/ CheckExpiry
    \/ RefreshToken
    \/ FetchActivities
    \/ ProcessActivity
    \/ GetContents
    \/ UpdateFile
    \/ ExternalEdit
    \/ Tick

Spec == Init /\ [][Next]_vars

\* a run that has fetched an activity with a cached, unexpired token
Fetched(act) ==
    /\ pc = "process" /\ now = 1 /\ runs = 1 /\ edits = 0
    /\ tokenFile = Token(MaxTime)
    /\ data = Token(MaxTime) /\ loaded = Token(MaxTime)
    /\ checkedAt = 1 /\ requestAt = 1
    /\ calls = << "get_token", "activities_request" >> /\ tokenFailed = FALSE
    /\ activity = act /\ svgResult = NoRoute
    /\ content = << >> /\ sha = NoSha /\ fragment = << >> /\ written = << >>
    /\ report = "none" /\ error = "none"

\* process_activity and update_website_log on every document up to MaxDocLen
InitPublish ==
    /\ \E act \in Activities : Fetched(act)
    /\ doc \in { Document(c) : c \in Docs }

NextPublish ==
    \/ ProcessActivity
    \/ GetContents
    \/ UpdateFile
    \/ ExternalEdit

SpecPublish == InitPublish /\ [][NextPublish]_vars

\* create_route_svg, as process_activity calls it, on every activity of AllActivities
InitRoute ==
    /\ \E act \in AllActivities : Fetched(act)
    /\ doc = Document(Marker)

NextRoute == ProcessActivity

SpecRoute == InitRoute /\ [][NextRoute]_vars

---------------------------------------------------------------------------
(* Properties *)

WellFormedToken(f) == DOMAIN f = {"access_token", "refresh_token", "expires_at"}

\* the token loaded at line 71 was expired when line 74 compared it
LoadedExpired == checkedAt # -1 /\ loaded.expires_at < checkedAt

HasMarker(c) == \E k \in 0..(Len(c) - Len(Marker)) : SubSeq(c, k + 1, k + Len(Marker)) = Marker

\* 0-based index of the first occurrence of the marker in a document that has one
FirstMarker(c) ==
    Min({ k \in 0..(Len(c) - Len(Marker)) : SubSeq(c, k + 1, k + Len(Marker)) = Marker })

ZeroSpanLat(points) == \A i, j \in 1..Len(points) : points[i][1] = points[j][1]
ZeroSpanLng(points) == \A i, j \in 1..Len(points) : points[i][2] = points[j][2]

RouteLess(act) == act.polyline \in {"absent", "empty", "malformed"} \/ act.points = << >>

\* C1: the activities request is never issued with a token whose expires_at
\* is earlier than the time at which the request is issued.
C1_NoExpiredTokenUsed ==
    requestAt # -1 => data.expires_at >= requestAt

\* C2: a run makes at most one refresh_token call; when the token loaded from
\* the cache was expired at the check, the run makes exactly one, followed at
\* once by write_token and get_token, all before the activities request; when
\* it was not expired, the run makes none.
C2_OneRefreshBeforeRequest ==
    /\ Count(calls, "refresh_token") <= 1
    /\ (checkedAt # -1 /\ ~LoadedExpired) => Count(calls, "refresh_token") = 0
    /\ (LoadedExpired /\ pc # "refresh") => Count(calls, "refresh_token") = 1
    /\ (LoadedExpired /\ requestAt # -1) =>
          \E i \in 1..(Len(calls) - 3) :
             /\ calls[i] = "refresh_token"
             /\ calls[i + 1] = "write_token"
             /\ calls[i + 2] = "get_token"
             /\ \A j \in Positions(calls, "activities_request") : j > i + 2
             /\ data = tokenFile

C2_Witness ==
    /\ LoadedExpired
    /\ requestAt # -1
    /\ Count(calls, "refresh_token") = 1

\* C3: once a token endpoint call of the run got a non-success response, the
\* run issues no activities request and no update_file; it can only be on its
\* way to the subscript that raises KeyError, or already ended by an exception,
\* and never ends normally.
C3_TokenFailureFatal ==
    tokenFailed =>
       /\ requestAt = -1
       /\ "activities_request" \notin Range(calls)
       /\ "update_file" \notin Range(calls)
       /\ written = << >>
       /\ pc \in {"get_token", "check", "fetch", "crashed"}
       /\ pc = "get_token" => tokenFile = ErrBody
       /\ pc = "check" => "expires_at" \notin DOMAIN data
       /\ pc = "fetch" => "access_token" \notin DOMAIN data
       /\ pc = "crashed" => error \in {"KeyError", "JSONDecodeError"}

C3_Witness ==
    /\ tokenFailed
    /\ pc = "crashed"
    /\ error = "KeyError"
    /\ "refresh_token" \in Range(calls)

\* C4: the step of update_website_log that follows the read never changes the
\* document when the document's sha is no longer the one read, and then
\* reports instead of raising; it changes the document only when the sha (and
\* so the content) is still the one read.
C4_ConditionalWrite ==
    [][ (pc = "update" /\ pc' = "done") =>
          /\ error' = "none"
          /\ doc.sha # sha =>
                /\ doc' = doc
                /\ report' \in {"error", "nomarker"}
                /\ calls' # calls => report' = "error"
          /\ doc' # doc =>
                /\ doc.sha = sha
                /\ doc.content = content
                /\ report' = "success" ]_vars

C4_Witness ==
    /\ pc = "done"
    /\ edits = 1
    /\ doc.content # content
    /\ written = << >>
    /\ "update_file" \in Range(calls)
    /\ report = "error"

\* C5: for a document read with the marker in it, the content written is the
\* content read up to and including the '>' that ends the first marker, then
\* the new log entry, then the rest of the content read, and nothing else.
C5_FragmentAfterMarker ==
    report = "success" =>
       /\ HasMarker(content)
       /\ LET k == FirstMarker(content) + Len(Marker) IN
            /\ content[k] = ">"
            /\ written = SubSeq(content, 1, k) \o fragment \o SubSeq(content, k + 1, Len(content))
       /\ fragment = NewLogEntry(activity, svgResult)
       /\ Len(written) = Len(content) + Len(fragment)
       /\ edits = 0 => doc = Document(written)

C5_Witness ==
    /\ report = "success"
    /\ FirstMarker(content) > 0
    /\ Len(content) > FirstMarker(content) + Len(Marker)

\* C6: when the document read has no marker, update_website_log ends having
\* reported that, without calling update_file and without an exception.
C6_NoMarkerNoWrite ==
    (sha # NoSha /\ ~HasMarker(content)) =>
       /\ "update_file" \notin Range(calls)
       /\ written = << >>
       /\ error = "none"
       /\ pc \in {"update", "done"}
       /\ pc = "done" => report = "nomarker"

C6_Witness ==
    /\ pc = "done"
    /\ report = "nomarker"
    /\ content # << >>
    /\ ~HasMarker(content)

\* C7: for points with zero span on an axis create_route_svg returns a path,
\* centred on that axis.
C7_ZeroSpanCentred ==
    (pc # "process" /\ activity.polyline = "encoded" /\ activity.points # << >>
       /\ (ZeroSpanLat(activity.points) \/ ZeroSpanLng(activity.points))) =>
       /\ svgResult.kind = "svg"
       /\ \A i \in 1..Len(svgResult.path) :
            /\ ZeroSpanLng(activity.points) => 2 * svgResult.path[i].x = width * 10
            /\ ZeroSpanLat(activity.points) => 2 * svgResult.path[i].y = height * 10

\* C8: every point of a path create_route_svg returns has x in [0, 200] and
\* y in [0, 150] (here in tenths); points with a span on both axes give a path
\* with one command per point.
C8_ProjectedInCanvas ==
    /\ svgResult.kind = "svg" =>
          \A i \in 1..Len(svgResult.path) :
             /\ 0 <= svgResult.path[i].x /\ svgResult.path[i].x <= width * 10
             /\ 0 <= svgResult.path[i].y /\ svgResult.path[i].y <= height * 10
    /\ (pc # "process" /\ activity.polyline = "encoded" /\ activity.points # << >>
          /\ ~ZeroSpanLat(activity.points) /\ ~ZeroSpanLng(activity.points)) =>
          /\ svgResult.kind = "svg"
          /\ Len(svgResult.path) = Len(activity.points)

C8_Witness ==
    /\ svgResult.kind = "svg"
    /\ Len(svgResult.path) = 3
    /\ \E i, j \in 1..3 : svgResult.path[i].x < svgResult.path[j].x
                          /\ svgResult.path[i].y < svgResult.path[j].y

\* C9: for an activity without a usable polyline the run is not ended by an
\* exception, and a published entry holds no text in the place of the route.
C9_RouteOmittedAndPublished ==
    (activity # NoActivity /\ RouteLess(activity)) =>
       /\ error = "none"
       /\ report = "success" => "None" \notin Range(fragment)

\* C10: the token cache file is absent or holds a token triple.
C10_CacheWellFormed ==
    tokenFile = NoFile \/ WellFormedToken(tokenFile)

====
